---- MODULE Spec2Model ----
(***************************************************************************)
(* A model of the guest side of a shared editing portal:                   *)
(* GuestPortalBinding (src/lib/guest-portal-binding.js), the workspace     *)
(* pane its views live in, and the portal it is the delegate of.           *)
(*                                                                         *)
(* One binding, one pane.  An async method is a sequence of steps, one per *)
(* stretch of code between two awaits; a call that is suspended at an      *)
(* await is a record in `calls` (setActiveEditorProxy) or the value of     *)
(* `initPc` (initialize).                                                  *)
(***************************************************************************)
EXTENDS Integers, Sequences, FiniteSets, TLC

\* ------------------------------------------------------------------ bounds
MaxCalls == 3          \* setActiveEditorProxy calls issued in one run
MaxShares == 4         \* sharePortal calls made in one run
MaxBufferOps == 4      \* edits, undos and redos done on the shared document

\* ------------------------------------------------------------------ values
\* The editor proxies of the portal: two editors of one buffer.
EditorProxies == {"ep1", "ep2"}
BufferProxies == {"bp1"}
Null == "null"

\* editorProxy.bufferProxy (line 61)
BufferProxyOf(editorProxy) == "bp1"

\* Pane items: the binding's placeholder, its editors (by number), the user's own.
NoItem == [kind |-> "none", id |-> 0]
EmptyPortalItem == [kind |-> "empty", id |-> 0]
EditorItem(n) == [kind |-> "editor", id |-> n]
UserItem(k) == [kind |-> "user", id |-> k]

\* The items the user opens in the pane beside the portal's, in this order.
UserItemIds == {1, 2}

IsPortalItem(item) == item.kind \in {"empty", "editor"}

\* Every item the binding can display: its placeholder and its editors.
PortalItems == {EmptyPortalItem} \cup {EditorItem(n) : n \in 1..MaxCalls}

\* The dispose() calls a binding gets (from the view being closed, from the
\* host going away, from the package's teardown) and the leave() calls the
\* package makes on it, in this order.
DisposeCallIds == {1, 2}
LeaveCallIds == {1}

\* The other guests of the portal; site 1 is the host.
SiteIds == {3}

\* The 'did-change' events the portal binding manager emits, in this order.
DidChangeEvents == {1, 2}

\* What client.joinPortal can do: resolve to a portal, resolve to null, or
\* reject with a PortalNotFoundError or with another error carrying a message.
ErrorMessages == {"m1", "m2"}
JoinOutcomes ==
  {[kind |-> "portal", message |-> ""], [kind |-> "null", message |-> ""],
   [kind |-> "PortalNotFoundError", message |-> "nf"]}
  \cup {[kind |-> "Error", message |-> m] : m \in ErrorMessages}

VARIABLES
  portal,                       \* this.portal: "undefined", "null", "live", "disposed"
  delegate,                     \* the portal's delegate is this binding
  initPc,                       \* "idle", or "joining": suspended at line 25
  initLog,                      \* one record per finished initialize() call
  notifications,                \* notificationManager's notifications, in order
  activePaneItem,               \* this.activePaneItem
  newActivePaneItem,            \* this.newActivePaneItem
  activeEditorBinding,          \* this.activeEditorBinding (number of its editor, 0 = null)
  destroySubscription,          \* the item a live destroy observer of the binding is on
  destroyObservers,             \* every item with a live onDidDestroy observer
  disposedEditorBindings,       \* the EditorBindings disposed, by editor number
  disposedBufferBindings,       \* the BufferBindings disposed, by buffer number
                                \* registered by the binding (line 165)
  editorBindingsByEditorProxy,  \* the map, as a function: 0 = no entry
  bufferBindingsByBufferProxy,  \* the map, as a function: 0 = no entry
  editors,                      \* every TextEditor/EditorBinding created, in order
  buffers,                      \* every TextBuffer/BufferBinding created, in order
  pane,                         \* the workspace pane: [items, active]
  destroyed,                    \* the items that have been destroyed
  userItems,                    \* how many items the user has opened
  calls,                        \* every setActiveEditorProxy call, in issue order
  subscription,                 \* this.activePaneItemDestroySubscription: whether it
                                \* is set, and the dispose() calls it has had
  disposeCalls,                 \* dispose() calls on the binding
  didDisposeCalls,              \* invocations of the didDispose callback
  destroyCalls,                 \* destroy() calls dispose() has made on each item
  portalDisposeCalls,           \* portal.dispose() calls
  leaveCalls,                   \* leave() calls made by the package
  hostGone,                     \* "no", "closed" (hostDidClosePortal), "lost"
  hostGoneItem,                 \* activePaneItem when the host went away
  hostGonePane,                 \* the items of the pane when the host went away
  followToggled,                \* per EditorBinding: its following-host-cursor flag
                                \* is the negation of its initial value
  autoscrolls,                  \* per call: the EditorBinding it autoscrolled (0 = none)
  errors,                       \* the operations that have thrown
  sites,                        \* per other guest: "absent", "joined", "left"
  didChangeEmits,               \* 'did-change' events emitted
  \* PortalStatusBarIndicator
  onclick,                      \* element.onclick is handleInitialClick (not null)
  clickPc,                      \* handleInitialClick: "idle", suspended at line 46
                                \* ("manager"), 51 ("provider"), 52 ("signIn"), "done"
  tile,                         \* this.tile: "none", "attached", "destroyed"
  subscriptionsDisposed,        \* this.subscriptions has been disposed
  didChangeSubscription,        \* the onDidChange subscription of line 47:
                                \* "none", "live", "disposed"
  popoverComponent,             \* this.popoverComponent is set
  tooltip,                      \* this.tooltip: "none", "live", "disposed"
  popoverVisible,               \* the popover's element is in the document
  visibleResult,                \* the last isPopoverVisible() call: "none" (no
                                \* call yet), "true", "false", "raised"
  transmitting,                 \* the element has the class 'transmitting'
  hasActivePortals,             \* what the manager's hasActivePortals() answers
  managerEvents,                \* 'did-change' events the manager has emitted
  pendingUpdates,               \* updatePortalStatus calls suspended at line 36:
                                \* [event, answer]
  \* the package around the binding
  joinPortalCalls,              \* joinPortal(id) calls made for the portal's id
  guestBindings,                \* GuestPortalBindings created for the portal's id
  pendingActivations,           \* later joinPortal calls waiting for the binding
  hostedPortals,                \* ids of the portals this process hosts
  portalsCreated,               \* portals the server has created for this process
  sharePortalResults,           \* the id each sharePortal() call returned, in order
  hostFocus,                    \* the focal view of the hosting process
  relayStarted,                 \* the guest binding has been given the host
                                \* portal's active editor proxy
  inFlight,                     \* active editor proxies the host portal has
                                \* sent and the guest binding has yet to get
  \* one shared document and its BufferBinding at the host (1) and the guest (2)
  phase,                        \* "local" (before sharing), "shared", "closed"
  text,                         \* per site: the edits visible in its document
  author,                       \* per edit, in order of creation: the site that made it
  undoStack,                    \* per site: the edits its undo would revert, last on top
  redoStack,                    \* per site: the edits its redo would re-apply
  proxyCalls,                   \* per site: mutations forwarded to the buffer proxy
  sharedEdits,                  \* per site: local edits made while bound
  toSite,                       \* per site: operations sent to it, yet to arrive
  bufferOps                     \* the operations done on the documents in the run

vars == <<portal, delegate, initPc, initLog, notifications, activePaneItem,
          newActivePaneItem, activeEditorBinding, destroySubscription,
          destroyObservers, disposedEditorBindings, disposedBufferBindings,
          editorBindingsByEditorProxy, bufferBindingsByBufferProxy, editors,
          buffers, pane, destroyed, userItems, calls, subscription,
          disposeCalls, didDisposeCalls, destroyCalls, portalDisposeCalls,
          leaveCalls, hostGone, hostGoneItem, hostGonePane, followToggled,
          autoscrolls, errors, sites, didChangeEmits, onclick, clickPc, tile,
          subscriptionsDisposed, didChangeSubscription, popoverComponent,
          tooltip, popoverVisible, visibleResult, transmitting,
          hasActivePortals, managerEvents, pendingUpdates, joinPortalCalls,
          guestBindings, pendingActivations, hostedPortals, portalsCreated,
          sharePortalResults, hostFocus, relayStarted, inFlight, phase, text,
          author, undoStack, redoStack, proxyCalls, sharedEdits, toSite,
          bufferOps>>

joinVars == <<joinPortalCalls, guestBindings, pendingActivations>>
shareVars == <<hostedPortals, portalsCreated, sharePortalResults>>
relayVars == <<hostFocus, relayStarted, inFlight>>
bufferVars == <<phase, text, author, undoStack, redoStack, proxyCalls,
                sharedEdits, toSite, bufferOps>>
packageVars == <<joinVars, shareVars, relayVars, bufferVars>>
disposalVars == <<disposedEditorBindings, disposedBufferBindings>>
lifeVars == <<disposeCalls, didDisposeCalls, leaveCalls, hostGone, hostGoneItem,
              hostGonePane>>
followVars == <<followToggled, errors, sites, didChangeEmits>>
indicatorVars == <<onclick, clickPc, tile, subscriptionsDisposed,
                   didChangeSubscription, popoverComponent, tooltip,
                   popoverVisible, visibleResult, transmitting,
                   hasActivePortals, managerEvents, pendingUpdates>>

initVars == <<portal, delegate, initPc, initLog, notifications>>
bindingVars == <<activePaneItem, newActivePaneItem, activeEditorBinding,
                 destroySubscription, editorBindingsByEditorProxy,
                 bufferBindingsByBufferProxy, editors, buffers>>

\* ------------------------------------------------------------------ the pane
\* The pane is the editor's own (Atom's Pane and Workspace); the binding uses
\* paneForItem, getItems, addItem, removeItem and workspace.open (lines
\* 155-160).  They are modelled by their documented behaviour.
\* items.indexOf(item), 1-based; 0 when the item is not there.
IndexOf(items, item) ==
  IF \E i \in 1..Len(items) : items[i] = item
  THEN CHOOSE i \in 1..Len(items) : items[i] = item
  ELSE 0

InPane(p, item) == IndexOf(p.items, item) # 0

InsertAt(items, index, item) ==
  LET at == IF index < 1 THEN 1
            ELSE IF index > Len(items) + 1 THEN Len(items) + 1 ELSE index
  IN SubSeq(items, 1, at - 1) \o <<item>> \o SubSeq(items, at, Len(items))

RemoveAt(items, index) ==
  SubSeq(items, 1, index - 1) \o SubSeq(items, index + 1, Len(items))

\* pane.addItem(item, {index}): an item the pane already holds is left where it
\* is; the first item of a pane becomes its active item.
PaneAddItem(p, item, index) ==
  IF InPane(p, item) THEN p
  ELSE [items |-> InsertAt(p.items, index, item),
        active |-> IF p.active = NoItem THEN item ELSE p.active]

\* pane.removeItem(item): removing the active item activates the one before it
\* (the next one when it was first); the item is not destroyed.
PaneRemoveItem(p, item) ==
  LET index == IndexOf(p.items, item)
      rest == RemoveAt(p.items, index)
  IN IF index = 0 THEN p
     ELSE [items |-> rest,
           active |-> IF p.active # item THEN p.active
                      ELSE IF Len(rest) = 0 THEN NoItem
                      ELSE IF index = 1 THEN rest[1] ELSE rest[index - 1]]

\* pane.activateItem(item): adds the item after the active one unless the pane
\* holds it, and makes it the active item.
PaneActivateItem(p, item) ==
  [items |-> PaneAddItem(p, item, IndexOf(p.items, p.active) + 1).items,
   active |-> item]

\* ------------------------------------------------------------------ initialize
\* didFailToJoin with the two branches of its test exchanged.
DidFailToJoinSwapped(portalId, error) ==
  IF error.kind # "PortalNotFoundError"
  THEN [type |-> "error", message |-> "Portal not found",
        description |-> <<"No portal exists with that ID.">>,
        dismissable |-> TRUE]
  ELSE [type |-> "error", message |-> "Failed to join portal",
        description |-> <<"Attempting to join portal", portalId,
                          "failed with error:", error.message>>,
        dismissable |-> TRUE]

\* didFailToJoin (lines 108-121): the notification it adds.
DidFailToJoin(portalId, error) ==
  IF error.kind = "PortalNotFoundError"
  THEN [type |-> "error", message |-> "Portal not found",
        description |-> <<"No portal exists with that ID.">>,
        dismissable |-> TRUE]
  ELSE [type |-> "error", message |-> "Failed to join portal",
        description |-> <<"Attempting to join portal", portalId,
                          "failed with error:", error.message>>,
        dismissable |-> TRUE]

PortalId == "id"

\* initialize without its try/catch: a rejected joinPortal propagates.
InitializeSettleNoCatch(outcome) ==
  IF outcome.kind = "portal"
  THEN [result |-> TRUE, raises |-> FALSE, portal |-> "live",
        delegate |-> TRUE, added |-> <<>>]
  ELSE IF outcome.kind = "null"
  THEN [result |-> FALSE, raises |-> FALSE, portal |-> "null",
        delegate |-> FALSE, added |-> <<>>]
  ELSE [result |-> FALSE, raises |-> TRUE, portal |-> portal,
        delegate |-> FALSE, added |-> <<>>]

\* initialize handing the binding to the client as delegate before it knows
\* that the join succeeded.
InitializeSettleEarlyDelegate(outcome) ==
  IF outcome.kind = "portal"
  THEN [result |-> TRUE, raises |-> FALSE, portal |-> "live",
        delegate |-> TRUE, added |-> <<>>]
  ELSE IF outcome.kind = "null"
  THEN [result |-> FALSE, raises |-> FALSE, portal |-> "null",
        delegate |-> TRUE, added |-> <<>>]
  ELSE [result |-> FALSE, raises |-> FALSE, portal |-> portal,
        delegate |-> TRUE, added |-> <<DidFailToJoin(PortalId, outcome)>>]

\* initialize (lines 23-34) from the point joinPortal settles: what it
\* returns (or that it raises), what this.portal becomes, whether the
\* portal's delegate is set, and the notifications it adds.
InitializeSettle(outcome) ==
  IF outcome.kind = "portal"
  THEN [result |-> TRUE, raises |-> FALSE, portal |-> "live",
        delegate |-> TRUE, added |-> <<>>]
  ELSE IF outcome.kind = "null"
  THEN [result |-> FALSE, raises |-> FALSE, portal |-> "null",
        delegate |-> FALSE, added |-> <<>>]
  ELSE [result |-> FALSE, raises |-> FALSE, portal |-> portal,
        delegate |-> FALSE, added |-> <<DidFailToJoin(PortalId, outcome)>>]

\* ------------------------------------------------------------------ setActiveEditorProxy
\* Lines 61-92 without the lookup of line 63: every activation makes an editor.
ResolveBindingsNoLookup(editorProxy) ==
  LET bufferProxy == BufferProxyOf(editorProxy)
      bufferBinding == bufferBindingsByBufferProxy[bufferProxy]
      newBuffers == IF bufferBinding # 0 THEN buffers
                    ELSE Append(buffers, [proxy |-> bufferProxy])
      buffer == IF bufferBinding # 0 THEN bufferBinding ELSE Len(newBuffers)
      newEditors == Append(editors, [proxy |-> editorProxy, buffer |-> buffer])
  IN [editor |-> Len(newEditors), editors |-> newEditors,
      buffers |-> newBuffers,
      editorBindings |->
        [editorBindingsByEditorProxy EXCEPT ![editorProxy] = Len(newEditors)],
      bufferBindings |->
        [bufferBindingsByBufferProxy EXCEPT ![bufferProxy] = buffer]]

\* Lines 61-92 without the test of line 69: every new editor gets a buffer
\* of its own.
ResolveBindingsNewBuffer(editorProxy) ==
  LET bufferProxy == BufferProxyOf(editorProxy)
      editorBinding == editorBindingsByEditorProxy[editorProxy]
      newBuffers == Append(buffers, [proxy |-> bufferProxy])
      buffer == Len(newBuffers)
      newEditors == Append(editors, [proxy |-> editorProxy, buffer |-> buffer])
  IN IF editorBinding # 0
     THEN [editor |-> editorBinding, editors |-> editors, buffers |-> buffers,
           editorBindings |-> editorBindingsByEditorProxy,
           bufferBindings |-> bufferBindingsByBufferProxy]
     ELSE [editor |-> Len(newEditors), editors |-> newEditors,
           buffers |-> newBuffers,
           editorBindings |->
             [editorBindingsByEditorProxy EXCEPT ![editorProxy] = Len(newEditors)],
           bufferBindings |->
             [bufferBindingsByBufferProxy EXCEPT ![bufferProxy] = buffer]]

\* Lines 61-92: the editor of the proxy's EditorBinding, looked up in the maps
\* and created (with its buffer, unless the buffer proxy has a binding) when
\* the editor proxy has none.  An editor and its EditorBinding are created
\* together and share a number; so do a buffer and its BufferBinding.
ResolveBindings(editorProxy) ==
  LET bufferProxy == BufferProxyOf(editorProxy)
      editorBinding == editorBindingsByEditorProxy[editorProxy]
      bufferBinding == bufferBindingsByBufferProxy[bufferProxy]
      newBuffers == IF bufferBinding # 0 THEN buffers
                    ELSE Append(buffers, [proxy |-> bufferProxy])
      buffer == IF bufferBinding # 0 THEN bufferBinding ELSE Len(newBuffers)
      newEditors == Append(editors, [proxy |-> editorProxy, buffer |-> buffer])
  IN IF editorBinding # 0
     THEN [editor |-> editorBinding, editors |-> editors, buffers |-> buffers,
           editorBindings |-> editorBindingsByEditorProxy,
           bufferBindings |-> bufferBindingsByBufferProxy]
     ELSE [editor |-> Len(newEditors), editors |-> newEditors,
           buffers |-> newBuffers,
           editorBindings |->
             [editorBindingsByEditorProxy EXCEPT ![editorProxy] = Len(newEditors)],
           bufferBindings |->
             [bufferBindingsByBufferProxy EXCEPT ![bufferProxy] = buffer]]

\* pane.addItem refuses an item that reports itself destroyed.  A TextEditor
\* does; whether the placeholder item does is not decided by the code at hand
\* (placeholderReports is either).
AddItemThrows(item, placeholderReports) ==
  /\ item \in destroyed
  /\ item.kind = "editor" \/ placeholderReports

\* Lines 155-158: the new item is added at the index of the displayed one,
\* which is then removed.
ReplaceInPane(p, old, new) ==
  PaneRemoveItem(PaneAddItem(p, new, IndexOf(p.items, old)), old)

\* Lines 163-166 registering the destroy observer only when there is none yet.
InstallActivePaneItemOnce(pending) ==
  [activePaneItem |-> pending,
   destroySubscription |->
     IF destroySubscription = NoItem THEN pending ELSE destroySubscription,
   destroyObservers |->
     IF destroySubscription = NoItem
     THEN destroyObservers \cup ({pending} \ {NoItem}) ELSE destroyObservers,
   throws |-> pending = NoItem]

\* Lines 163-166 without line 164: the previous observer is not released.
InstallActivePaneItemKeepsObserver(pending) ==
  [activePaneItem |-> pending,
   destroySubscription |-> pending,
   destroyObservers |-> destroyObservers \cup ({pending} \ {NoItem}),
   throws |-> pending = NoItem]

\* Lines 163-166, which both branches of replaceActivePaneItem end with: the
\* item the binding now tracks and the item its destroy observer is on.  With
\* this.newActivePaneItem null, line 165 throws after line 164 has released
\* the previous observer.
InstallActivePaneItem(pending) ==
  [activePaneItem |-> pending,
   destroySubscription |-> pending,
   destroyObservers |->
     (destroyObservers \ {destroySubscription}) \cup ({pending} \ {NoItem}),
   throws |-> pending = NoItem]

\* Lines 164-165 on the subscription field: the one it holds is disposed, and
\* unless line 165 throws a fresh one replaces it.
SubscriptionAfterInstall(throws) ==
  IF ~throws THEN [exists |-> TRUE, releases |-> 0]
  ELSE IF subscription.exists
  THEN [subscription EXCEPT !.releases = @ + 1]
  ELSE subscription

\* replaceActivePaneItem (lines 151-167) up to its first await or its end.
\*   "replace": an item is displayed and is swapped in place (lines 155-158, 163-166)
\*   "throw":   the displayed item is in no pane (line 156), or addItem refuses
\*   "open":    nothing is displayed: suspended in workspace.open (line 160)
ReplaceActivePaneItem(item, placeholderReports) ==
  IF activePaneItem = NoItem
  THEN [path |-> "open", pane |-> pane, activePaneItem |-> activePaneItem,
        newActivePaneItem |-> item, destroySubscription |-> destroySubscription,
        destroyObservers |-> destroyObservers]
  ELSE IF ~InPane(pane, activePaneItem)
          \/ (~InPane(pane, item) /\ AddItemThrows(item, placeholderReports))
  THEN [path |-> "throw", pane |-> pane, activePaneItem |-> activePaneItem,
        newActivePaneItem |-> item, destroySubscription |-> destroySubscription,
        destroyObservers |-> destroyObservers]
  ELSE [path |-> "replace", pane |-> ReplaceInPane(pane, activePaneItem, item),
        activePaneItem |-> InstallActivePaneItem(item).activePaneItem,
        newActivePaneItem |-> NoItem,
        destroySubscription |-> InstallActivePaneItem(item).destroySubscription,
        destroyObservers |-> InstallActivePaneItem(item).destroyObservers]

\* A call's position after the synchronous part of setActiveEditorProxy.
PcAfter(path, editorProxy) ==
  IF path = "open" THEN "open"
  ELSE IF path = "throw" THEN "failed"
  ELSE IF editorProxy = Null THEN "done" ELSE "scroll"

\* The portal delivers setActiveEditorProxy(editorProxy) to its delegate:
\* lines 57-94 up to the await inside replaceActivePaneItem.
SetActiveEditorProxy(editorProxy, placeholderReports) ==
  /\ delegate /\ portal = "live" /\ hostGone = "no"
  /\ Len(calls) < MaxCalls
  /\ LET b == IF editorProxy = Null
              THEN [editor |-> activeEditorBinding, editors |-> editors,
                    buffers |-> buffers,
                    editorBindings |-> editorBindingsByEditorProxy,
                    bufferBindings |-> bufferBindingsByBufferProxy]
              ELSE ResolveBindings(editorProxy)
         item == IF editorProxy = Null THEN EmptyPortalItem
                 ELSE EditorItem(b.editor)
         r == ReplaceActivePaneItem(item, placeholderReports)
     IN /\ editors' = b.editors
        /\ buffers' = b.buffers
        /\ editorBindingsByEditorProxy' = b.editorBindings
        /\ bufferBindingsByBufferProxy' = b.bufferBindings
        /\ activeEditorBinding' = b.editor
        /\ pane' = r.pane
        /\ activePaneItem' = r.activePaneItem
        /\ newActivePaneItem' = r.newActivePaneItem
        /\ destroySubscription' = r.destroySubscription
        /\ destroyObservers' = r.destroyObservers
        /\ calls' = Append(calls,
             [arg |-> editorProxy, item |-> item, path |-> r.path,
              pc |-> PcAfter(r.path, editorProxy),
              shown |-> IF r.path = "replace" THEN r.activePaneItem ELSE NoItem])
  /\ subscription' = IF calls'[Len(calls')].path = "replace"
                     THEN SubscriptionAfterInstall(FALSE) ELSE subscription
  /\ UNCHANGED <<disposalVars, indicatorVars, initVars, destroyed, userItems, lifeVars,
                 followVars,
                 destroyCalls, portalDisposeCalls, autoscrolls>>

\* Promise continuations run in the order their promises were created: a call
\* is resumed at a stage only when no earlier call still waits for that stage.
EarlierPast(i, stages) == \A j \in 1..(i - 1) : calls[j].pc \notin stages

\* workspace.open(item) (line 160) does its work: the item is activated in the
\* pane, being added after the pane's active item unless the pane holds it.
WorkspaceOpen(i, placeholderReports) ==
  /\ i \in 1..Len(calls)
  /\ calls[i].pc = "open"
  /\ EarlierPast(i, {"open"})
  /\ IF ~InPane(pane, calls[i].item) /\ AddItemThrows(calls[i].item,
                 placeholderReports)
     THEN /\ calls' = [calls EXCEPT ![i].pc = "failed"]
          /\ pane' = pane
     ELSE /\ calls' = [calls EXCEPT ![i].pc = "opened"]
          /\ pane' = PaneActivateItem(pane, calls[i].item)
  /\ UNCHANGED <<disposalVars, destroyObservers, packageVars, indicatorVars, initVars,
                 bindingVars, destroyed,
                 userItems,
                 lifeVars,
                 followVars, subscription, destroyCalls, portalDisposeCalls,
                 autoscrolls>>

\* replaceActivePaneItem resumes after workspace.open (lines 163-166).
ResumeReplace(i) ==
  /\ i \in 1..Len(calls)
  /\ calls[i].pc = "opened"
  /\ EarlierPast(i, {"open", "opened"})
  /\ LET r == InstallActivePaneItem(newActivePaneItem)
     IN /\ activePaneItem' = r.activePaneItem
        /\ destroySubscription' = r.destroySubscription
        /\ destroyObservers' = r.destroyObservers
        /\ newActivePaneItem' = NoItem
        /\ calls' = [calls EXCEPT
             ![i].pc = IF r.throws THEN "failed"
                       ELSE IF calls[i].arg = Null THEN "done" ELSE "scroll",
             ![i].shown = r.activePaneItem]
        /\ subscription' = SubscriptionAfterInstall(r.throws)
  /\ UNCHANGED <<disposalVars, packageVars, indicatorVars, initVars, activeEditorBinding,
                 editorBindingsByEditorProxy,
                 bufferBindingsByBufferProxy, editors, buffers, pane,
                 destroyed, userItems, lifeVars, followVars, destroyCalls,
                 portalDisposeCalls, autoscrolls>>

\* Line 95: the binding the call autoscrolls is its local editorBinding, the
\* one of the editor it asked to display.
AutoscrollTarget(call) == call.item.id

\* setActiveEditorProxy resumes after replaceActivePaneItem (line 95):
\* editorBinding.autoscrollToLastHostSelection(), and the call completes.
Autoscroll(i) ==
  /\ i \in 1..Len(calls)
  /\ calls[i].pc = "scroll"
  /\ calls' = [calls EXCEPT ![i].pc = "done"]
  /\ autoscrolls' = [autoscrolls EXCEPT ![i] = AutoscrollTarget(calls[i])]
  /\ UNCHANGED <<disposalVars, destroyObservers, packageVars, indicatorVars, initVars,
                 bindingVars, pane,
                 destroyed,
                 userItems, lifeVars,
                 followVars, subscription, destroyCalls, portalDisposeCalls>>

\* ------------------------------------------------------------------ disposed bindings
\* A BufferBinding whose didDispose callback leaves the map as it is.
BufferBindingDidDisposeKeeps(b) == bufferBindingsByBufferProxy

\* The didDispose callback of the BufferBinding of buffer b (line 75):
\* this.bufferBindingsByBufferProxy.delete(bufferProxy), the proxy being the
\* one the binding was created for.
BufferBindingDidDispose(b) ==
  [bufferBindingsByBufferProxy EXCEPT ![buffers[b].proxy] = 0]

\* An EditorBinding whose didDispose callback leaves the map as it is.
EditorBindingDidDisposeKeeps(n) == editorBindingsByEditorProxy

\* The didDispose callback of the EditorBinding of editor n (line 86):
\* this.editorBindingsByEditorProxy.delete(editorProxy), the proxy being the
\* one the binding was created for.
EditorBindingDidDispose(n) ==
  [editorBindingsByEditorProxy EXCEPT ![editors[n].proxy] = 0]

\* An EditorBinding is disposed (its editor is destroyed, its proxy is
\* disposed by the host) and calls its didDispose callback; a binding is torn
\* down once.
DisposeEditorBinding(n) ==
  /\ n \in 1..Len(editors)
  /\ n \notin disposedEditorBindings
  /\ disposedEditorBindings' = disposedEditorBindings \cup {n}
  /\ editorBindingsByEditorProxy' = EditorBindingDidDispose(n)
  /\ UNCHANGED <<packageVars, indicatorVars, initVars, activePaneItem,
                 newActivePaneItem, activeEditorBinding, destroySubscription,
                 destroyObservers, disposedBufferBindings,
                 bufferBindingsByBufferProxy, editors, buffers, pane,
                 destroyed, userItems, calls, subscription, destroyCalls,
                 portalDisposeCalls, autoscrolls, lifeVars, followVars>>

\* A BufferBinding is disposed (the host's buffer is gone) and calls its
\* didDispose callback.
DisposeBufferBinding(b) ==
  /\ b \in 1..Len(buffers)
  /\ b \notin disposedBufferBindings
  /\ disposedBufferBindings' = disposedBufferBindings \cup {b}
  /\ bufferBindingsByBufferProxy' = BufferBindingDidDispose(b)
  /\ UNCHANGED <<packageVars, indicatorVars, initVars, activePaneItem,
                 newActivePaneItem, activeEditorBinding, destroySubscription,
                 destroyObservers, disposedEditorBindings,
                 editorBindingsByEditorProxy, editors, buffers, pane,
                 destroyed, userItems, calls, subscription, destroyCalls,
                 portalDisposeCalls, autoscrolls, lifeVars, followVars>>

\* ------------------------------------------------------------------ the user
\* leave (lines 142-144)
Leave(p) == IF p \in {"live", "disposed"} THEN "disposed" ELSE p

\* The user opens an item of their own in the pane.
UserOpen(k) ==
  /\ k = userItems + 1
  /\ userItems' = k
  /\ pane' = PaneActivateItem(pane, UserItem(k))
  /\ UNCHANGED <<disposalVars, destroyObservers, packageVars, indicatorVars, initVars,
                 bindingVars, destroyed,
                 calls,
                 lifeVars, followVars,
                 subscription, destroyCalls, portalDisposeCalls, autoscrolls>>

\* The user closes one of the portal's items in the pane: the item is
\* destroyed, the pane drops it, and the binding's destroy observer (line 165),
\* if it is on this item, calls leave().
UserDestroy(item) ==
  /\ IsPortalItem(item)
  /\ InPane(pane, item)
  /\ destroyed' = destroyed \cup {item}
  /\ pane' = PaneRemoveItem(pane, item)
  /\ portal' = IF item \in destroyObservers THEN Leave(portal) ELSE portal
  /\ portalDisposeCalls' =
       IF item \in destroyObservers THEN portalDisposeCalls + 1
       ELSE portalDisposeCalls
  /\ UNCHANGED destroyObservers
  /\ UNCHANGED <<disposalVars, packageVars, indicatorVars, delegate, initPc, initLog,
                 notifications,
                 bindingVars,
                 userItems, calls, lifeVars, followVars, subscription,
                 destroyCalls, autoscrolls>>

\* leave() is called by the package (lines 142-144): this.portal.dispose(),
\* a TypeError when this.portal is undefined or null.
LeaveCall(k) ==
  /\ k = leaveCalls + 1
  /\ leaveCalls' = k
  /\ IF portal \in {"undefined", "null"}
     THEN /\ errors' = errors \cup {"leave"}
          /\ UNCHANGED <<portal, portalDisposeCalls>>
     ELSE /\ portal' = Leave(portal)
          /\ portalDisposeCalls' = portalDisposeCalls + 1
          /\ errors' = errors
  /\ UNCHANGED <<disposalVars, destroyObservers, packageVars, indicatorVars, delegate,
                 initPc, initLog,
                 notifications,
                 bindingVars, pane,
                 destroyed, userItems, calls, subscription, disposeCalls,
                 didDisposeCalls, destroyCalls, hostGone, hostGoneItem,
                 hostGonePane, followToggled, autoscrolls, sites,
                 didChangeEmits>>

\* ------------------------------------------------------------------ teardown
\* item.destroy() as the pane sees it: the pane drops the item.
DestroyIn(p, item) == IF InPane(p, item) THEN PaneRemoveItem(p, item) ELSE p

\* The destroy() calls of one dispose() (lines 38-39): on this.activePaneItem
\* if it is set, then on the placeholder.
DisposeDestroys ==
  (IF activePaneItem # NoItem THEN <<activePaneItem>> ELSE <<>>)
    \o <<EmptyPortalItem>>

\* dispose() without line 37: the observer is live when the items are
\* destroyed.
ObserversAfterReleaseNone == destroyObservers

\* Line 37: the observer that this.activePaneItemDestroySubscription holds is
\* released; what is left are the observers that are live while lines 38-39
\* destroy the items.
ObserversAfterRelease == destroyObservers \ {destroySubscription}

\* The leave() calls the observers make during the destroy() calls of lines
\* 38-39: one for every item destroyed that has a live observer.
DisposeLeaves ==
  Cardinality({j \in 1..Len(DisposeDestroys) :
                 DisposeDestroys[j] \in ObserversAfterRelease})

\* dispose() (lines 36-41).
Dispose(k) ==
  /\ k = disposeCalls + 1
  /\ disposeCalls' = k
  /\ subscription' = IF subscription.exists
                     THEN [subscription EXCEPT !.releases = @ + 1]
                     ELSE subscription
  /\ destroySubscription' = NoItem
  /\ destroyObservers' = ObserversAfterRelease
  /\ portal' = IF DisposeLeaves > 0 THEN Leave(portal) ELSE portal
  /\ portalDisposeCalls' = portalDisposeCalls + DisposeLeaves
  /\ pane' = DestroyIn(DestroyIn(pane, activePaneItem), EmptyPortalItem)
  /\ destroyed' = destroyed \cup {DisposeDestroys[j] : j \in 1..Len(DisposeDestroys)}
  /\ destroyCalls' =
       [item \in PortalItems |->
          destroyCalls[item]
            + Cardinality({j \in 1..Len(DisposeDestroys) : DisposeDestroys[j] = item})]
  /\ didDisposeCalls' = didDisposeCalls + 1
  /\ UNCHANGED <<disposalVars, packageVars, indicatorVars, delegate, initPc, initLog,
                 notifications, activePaneItem, newActivePaneItem,
                 activeEditorBinding, editorBindingsByEditorProxy,
                 bufferBindingsByBufferProxy, editors, buffers, userItems,
                 calls, leaveCalls, hostGone, hostGoneItem,
                 hostGonePane, followVars, autoscrolls>>

\* One notification, that of hostDidClosePortal, for either cause.
HostGoneNotificationSame(cause) ==
  [type |-> "info", message |-> "Portal closed",
   description |-> <<"Your host stopped sharing their editor.">>,
   dismissable |-> TRUE]

\* The notification of hostDidClosePortal (lines 124-127) and of
\* hostDidLoseConnection (lines 132-138).
HostGoneNotification(cause) ==
  [type |-> "info", message |-> "Portal closed",
   description |->
     IF cause = "closed"
     THEN <<"Your host stopped sharing their editor.">>
     ELSE <<"We haven't heard from the host in a while.",
            "Once your host is back online, they can share a new portal with you to resume collaborating.">>,
   dismissable |-> TRUE]

\* Lines 128 and 139: this.activePaneItem = null.
ActivePaneItemAfterHostGone(item) == NoItem

\* The portal tells its delegate that the host is gone, for either cause.
HostGoes(cause) ==
  /\ delegate /\ portal = "live" /\ hostGone = "no"
  /\ hostGone' = cause
  /\ hostGoneItem' = activePaneItem
  /\ hostGonePane' = {pane.items[j] : j \in 1..Len(pane.items)}
  /\ notifications' = Append(notifications, HostGoneNotification(cause))
  /\ activePaneItem' = ActivePaneItemAfterHostGone(activePaneItem)
  /\ UNCHANGED <<disposalVars, destroyObservers, packageVars, indicatorVars, portal,
                 delegate, initPc, initLog,
                 newActivePaneItem,
                 activeEditorBinding, destroySubscription,
                 editorBindingsByEditorProxy, bufferBindingsByBufferProxy,
                 editors, buffers, pane, destroyed, userItems, calls,
                 subscription, disposeCalls, didDisposeCalls, destroyCalls,
                 portalDisposeCalls, leaveCalls, followVars, autoscrolls>>

\* The dispose() that follows the host's going away.
DisposeAfterHostGone == hostGone # "no" /\ Dispose(1)

\* hostDidClosePortal (lines 123-129)
HostDidClosePortal == HostGoes("closed")

\* hostDidLoseConnection (lines 131-140)
HostDidLoseConnection == HostGoes("lost")

\* ------------------------------------------------------------------ commands
\* toggleFollowHostCursorOnActiveEditorProxy (lines 146-149): the flag of
\* this.activeEditorBinding is negated; a TypeError when the field is null.
ToggleFollowHostCursorOnActiveEditorProxy ==
  /\ IF activeEditorBinding = 0
     THEN /\ errors' = errors \cup {"toggleFollowHostCursorOnActiveEditorProxy"}
          /\ followToggled' = followToggled
     ELSE /\ followToggled' =
               [followToggled EXCEPT ![activeEditorBinding] = ~@]
          /\ errors' = errors
  /\ UNCHANGED <<disposalVars, destroyObservers, packageVars, indicatorVars, initVars,
                 bindingVars, pane,
                 destroyed,
                 userItems, calls,
                 lifeVars, subscription, destroyCalls, portalDisposeCalls,
                 autoscrolls, sites, didChangeEmits>>

\* getActivePaneItem (lines 169-171)
GetActivePaneItem ==
  IF newActivePaneItem # NoItem THEN newActivePaneItem ELSE activePaneItem

\* activate (lines 99-106): the item is activated in the pane that holds it,
\* and nothing is done when there is no item or no pane holds it.
Activate ==
  /\ pane' = IF GetActivePaneItem # NoItem /\ InPane(pane, GetActivePaneItem)
             THEN PaneActivateItem(pane, GetActivePaneItem)
             ELSE pane
  /\ UNCHANGED <<disposalVars, destroyObservers, indicatorVars, initVars, bindingVars,
                 destroyed, userItems,
                 calls, lifeVars,
                 followVars, subscription, destroyCalls, portalDisposeCalls,
                 autoscrolls>>

\* ------------------------------------------------------------------ other guests
\* The logins portal.getSiteIdentity gives (lines 44-45, 51-52).
SiteLogin(siteId) == IF siteId = 1 THEN "host" ELSE "guest"

\* siteDidJoin and siteDidLeave adding no notification.
SiteNotificationsNone(event, siteId) == <<>>

\* What siteDidJoin (lines 43-48) and siteDidLeave (lines 50-55) add to the
\* notifications.
SiteNotifications(event, siteId) ==
  <<[type |-> "info",
     message |-> <<"@", SiteLogin(siteId), event, "@", SiteLogin(1), "'s portal">>,
     description |-> <<>>,
     dismissable |-> FALSE]>>

\* siteDidJoin(siteId) (lines 43-48)
SiteDidJoin(siteId) ==
  /\ delegate /\ portal = "live"
  /\ sites[siteId] = "absent"
  /\ sites' = [sites EXCEPT ![siteId] = "joined"]
  /\ notifications' = notifications \o SiteNotifications(" has joined ", siteId)
  /\ didChangeEmits' = didChangeEmits + 1
  /\ UNCHANGED <<disposalVars, destroyObservers, packageVars, indicatorVars, portal,
                 delegate, initPc, initLog,
                 bindingVars, pane,
                 destroyed, userItems, calls, lifeVars, subscription,
                 destroyCalls, portalDisposeCalls, autoscrolls, followToggled,
                 errors>>

\* siteDidLeave(siteId) (lines 50-55)
SiteDidLeave(siteId) ==
  /\ delegate /\ portal = "live"
  /\ sites[siteId] = "joined"
  /\ sites' = [sites EXCEPT ![siteId] = "left"]
  /\ notifications' = notifications \o SiteNotifications(" has left ", siteId)
  /\ didChangeEmits' = didChangeEmits + 1
  /\ UNCHANGED <<disposalVars, destroyObservers, packageVars, indicatorVars, portal,
                 delegate, initPc, initLog,
                 bindingVars, pane,
                 destroyed, userItems, calls, lifeVars, subscription,
                 destroyCalls, portalDisposeCalls, autoscrolls, followToggled,
                 errors>>

\* ------------------------------------------------------------------ initialize
\* initialize() is called, once for a binding, and suspends in
\* client.joinPortal (line 25).
Initialize ==
  /\ initPc = "idle"
  /\ initLog = <<>>
  /\ initPc' = "joining"
  /\ UNCHANGED <<disposalVars, destroyObservers, indicatorVars, portal, delegate, initLog,
                 notifications,
                 bindingVars, pane,
                 destroyed, userItems, calls, lifeVars, followVars,
                 subscription, destroyCalls, portalDisposeCalls, autoscrolls>>

\* client.joinPortal settles and initialize() runs to its return (lines 25-33).
JoinPortalSettles(outcome) ==
  /\ initPc = "joining"
  /\ LET r == InitializeSettle(outcome)
     IN /\ portal' = r.portal
        /\ delegate' = r.delegate
        /\ notifications' = notifications \o r.added
        /\ initLog' = Append(initLog,
             [outcome |-> outcome, result |-> r.result, raised |-> r.raises,
              added |-> Len(notifications') - Len(notifications)])
  /\ initPc' = "idle"
  /\ UNCHANGED <<disposalVars, destroyObservers, packageVars, indicatorVars, bindingVars,
                 pane, destroyed,
                 userItems,
                 calls, lifeVars,
                 followVars, subscription, destroyCalls, portalDisposeCalls,
                 autoscrolls>>

\* ------------------------------------------------------------------ the status bar indicator
\* Everything of the GuestPortalBinding, which the indicator leaves alone.
guestPortalBindingVars ==
  <<initVars, bindingVars, pane, destroyed, userItems, calls, subscription,
    destroyCalls, portalDisposeCalls, autoscrolls, lifeVars, followVars,
    destroyObservers, disposalVars>>

\* A click on the element reaches the tooltip, registered with trigger
\* 'click' (lines 60-68): a live tooltip shows the popover or hides it.
ClickToggles(tt, visible) == IF tt = "live" THEN ~visible ELSE visible

\* isPopoverVisible (lines 31-33): document.contains(this.popoverComponent.element),
\* a TypeError while this.popoverComponent is undefined.
IsPopoverVisibleResult ==
  IF ~popoverComponent THEN "raised"
  ELSE IF popoverVisible THEN "true" ELSE "false"

\* attach (lines 13-19)
Attach ==
  /\ tile = "none"
  /\ tile' = "attached"
  /\ UNCHANGED <<packageVars, guestPortalBindingVars, onclick, clickPc,
                 subscriptionsDisposed, didChangeSubscription,
                 popoverComponent, tooltip, popoverVisible, visibleResult,
                 transmitting, hasActivePortals, managerEvents, pendingUpdates>>

\* The user clicks the element in the status bar: the first click starts
\* handleInitialClick (lines 44-46), which clears onclick and suspends in
\* props.getPortalBindingManager(); every click reaches the tooltip.
Click ==
  /\ tile = "attached"
  /\ IF onclick
     THEN onclick' = FALSE /\ clickPc' = "manager"
     ELSE UNCHANGED <<onclick, clickPc>>
  /\ popoverVisible' = ClickToggles(tooltip, popoverVisible)
  /\ UNCHANGED <<packageVars, guestPortalBindingVars, tile,
                 subscriptionsDisposed,
                 didChangeSubscription, popoverComponent, tooltip,
                 visibleResult, transmitting, hasActivePortals, managerEvents,
                 pendingUpdates>>

\* handleInitialClick resumes with the manager (lines 46-51): it subscribes to
\* the manager's did-change and suspends in props.getAuthenticationProvider().
\* A CompositeDisposable that has been disposed does not keep what is added
\* to it, and does not dispose it.
ManagerResolves ==
  /\ clickPc = "manager"
  /\ didChangeSubscription' = "live"
  /\ clickPc' = "provider"
  /\ UNCHANGED <<packageVars, guestPortalBindingVars, onclick, tile,
                 subscriptionsDisposed,
                 popoverComponent, tooltip, popoverVisible, visibleResult,
                 transmitting, hasActivePortals, managerEvents, pendingUpdates>>

\* handleInitialClick resumes with the authentication provider (lines 51-52)
\* and suspends in signInUsingSavedToken().
ProviderResolves ==
  /\ clickPc = "provider"
  /\ clickPc' = "signIn"
  /\ UNCHANGED <<packageVars, guestPortalBindingVars, onclick, tile,
                 subscriptionsDisposed,
                 didChangeSubscription, popoverComponent, tooltip,
                 popoverVisible, visibleResult, transmitting, hasActivePortals,
                 managerEvents, pendingUpdates>>

\* handleInitialClick resumes after the sign-in (lines 52-69): the popover
\* component is created, the tooltip registered, and the element clicked.
SignInResolves ==
  /\ clickPc = "signIn"
  /\ popoverComponent' = TRUE
  /\ tooltip' = "live"
  /\ popoverVisible' = ClickToggles("live", popoverVisible)
  /\ clickPc' = "done"
  /\ UNCHANGED <<packageVars, guestPortalBindingVars, onclick, tile,
                 subscriptionsDisposed,
                 didChangeSubscription, visibleResult, transmitting,
                 hasActivePortals, managerEvents, pendingUpdates>>

\* isPopoverVisible() is called (lines 31-33).
IsPopoverVisible ==
  /\ visibleResult' = IsPopoverVisibleResult
  /\ UNCHANGED <<packageVars, guestPortalBindingVars, onclick, clickPc, tile,
                 subscriptionsDisposed, didChangeSubscription,
                 popoverComponent, tooltip, popoverVisible, transmitting,
                 hasActivePortals, managerEvents, pendingUpdates>>

\* showPopover (lines 27-29): the element is clicked unless the popover is
\* visible; the TypeError of isPopoverVisible passes through.
ShowPopover ==
  /\ visibleResult' = IsPopoverVisibleResult
  /\ IF IsPopoverVisibleResult = "false"
     THEN /\ IF onclick
             THEN onclick' = FALSE /\ clickPc' = "manager"
             ELSE UNCHANGED <<onclick, clickPc>>
          /\ popoverVisible' = ClickToggles(tooltip, popoverVisible)
     ELSE UNCHANGED <<onclick, clickPc, popoverVisible>>
  /\ UNCHANGED <<packageVars, guestPortalBindingVars, tile,
                 subscriptionsDisposed,
                 didChangeSubscription, popoverComponent, tooltip,
                 transmitting, hasActivePortals, managerEvents, pendingUpdates>>

\* destroy (lines 21-25), called once when the package is deactivated.
Destroy ==
  /\ ~subscriptionsDisposed
  /\ tile' = IF tile = "attached" THEN "destroyed" ELSE tile
  /\ tooltip' = IF tooltip = "live" THEN "disposed" ELSE tooltip
  /\ popoverVisible' = IF tooltip = "live" THEN FALSE ELSE popoverVisible
  /\ subscriptionsDisposed' = TRUE
  /\ didChangeSubscription' =
       IF didChangeSubscription = "live" THEN "disposed" ELSE didChangeSubscription
  /\ UNCHANGED <<packageVars, guestPortalBindingVars, onclick, clickPc,
                 popoverComponent,
                 visibleResult, transmitting, hasActivePortals, managerEvents,
                 pendingUpdates>>

\* The portal binding manager's portals change and it emits 'did-change'; a
\* live subscription of line 47 calls updatePortalStatus, which suspends in
\* hasActivePortals() (line 36).
ManagerDidChange(k, active) ==
  /\ k = managerEvents + 1
  /\ managerEvents' = k
  /\ hasActivePortals' = active
  /\ pendingUpdates' =
       IF didChangeSubscription = "live"
       THEN pendingUpdates \cup {[event |-> k, answer |-> active]}
       ELSE pendingUpdates
  /\ UNCHANGED <<packageVars, guestPortalBindingVars, onclick, clickPc, tile,
                 subscriptionsDisposed, didChangeSubscription,
                 popoverComponent, tooltip, popoverVisible, visibleResult,
                 transmitting>>

\* One updatePortalStatus call resumes with the manager's answer (lines
\* 36-41), in whatever order the answers arrive; the answer is what the
\* manager held when it was asked or what it holds now.
UpdateResolves(u, fresh) ==
  /\ u \in pendingUpdates
  /\ pendingUpdates' = pendingUpdates \ {u}
  /\ transmitting' = IF fresh THEN hasActivePortals ELSE u.answer
  /\ UNCHANGED <<packageVars, guestPortalBindingVars, onclick, clickPc, tile,
                 subscriptionsDisposed, didChangeSubscription,
                 popoverComponent, tooltip, popoverVisible, visibleResult,
                 hasActivePortals, managerEvents>>

\* ------------------------------------------------------------------ the package: joining
\* The joinPortal(id) calls one process makes for the id of the portal.
JoinCallIds == {1, 2, 3}

\* The PortalBindingManager's registry of guest bindings, for one portal id:
\* the first joinPortal creates the binding, a later one finds it.
RegisteredBindings(bindings) == IF bindings = 0 THEN 1 ELSE bindings

\* joinPortal(id), the k-th call for the id: the first call has the binding
\* created and starts its initialize(); a later call, also one made before
\* the first has completed, waits for that binding.
JoinPortal(k) ==
  /\ k = joinPortalCalls + 1
  /\ joinPortalCalls' = k
  /\ guestBindings' = RegisteredBindings(guestBindings)
  /\ IF guestBindings' # guestBindings
     THEN /\ initPc = "idle"
          /\ Initialize
          /\ UNCHANGED pendingActivations
     ELSE /\ pendingActivations' = pendingActivations + 1
          /\ UNCHANGED <<guestPortalBindingVars, indicatorVars>>
  /\ UNCHANGED <<bufferVars, shareVars, relayVars>>

\* A later joinPortal call resumes once the binding's initialize() has
\* returned, and activates the binding if it joined.
JoinPortalResumes ==
  /\ pendingActivations > 0
  /\ initPc = "idle" /\ initLog # <<>>
  /\ pendingActivations' = pendingActivations - 1
  /\ IF initLog[1].result
     THEN Activate
     ELSE UNCHANGED <<guestPortalBindingVars, indicatorVars>>
  /\ UNCHANGED <<bufferVars, joinPortalCalls, guestBindings, shareVars,
                 relayVars>>

\* ------------------------------------------------------------------ the package: hosting
\* sharePortal() creating a portal on every call.
HostedAfterShareAlways(hosted, created) ==
  [hosted |-> hosted \cup {created + 1}, created |-> created + 1,
   portal |-> created + 1]

\* sharePortal() on the registry of hosted portals: the hosted portal if
\* there is one, else a portal the server creates under a fresh id.
HostedAfterShare(hosted, created) ==
  IF hosted # {}
  THEN [hosted |-> hosted, created |-> created,
        portal |-> CHOOSE id \in hosted : TRUE]
  ELSE [hosted |-> {created + 1}, created |-> created + 1,
        portal |-> created + 1]

\* sharePortal()
SharePortal ==
  /\ Len(sharePortalResults) < MaxShares
  /\ LET r == HostedAfterShare(hostedPortals, portalsCreated)
     IN /\ hostedPortals' = r.hosted
        /\ portalsCreated' = r.created
        /\ sharePortalResults' = Append(sharePortalResults, r.portal)
  /\ UNCHANGED <<bufferVars, guestPortalBindingVars, indicatorVars, joinVars,
                 relayVars>>

\* closeHostPortal(): the hosted portal is closed and no longer hosted.
CloseHostPortal ==
  /\ hostedPortals # {}
  /\ hostedPortals' = {}
  /\ UNCHANGED <<bufferVars, guestPortalBindingVars, indicatorVars, joinVars,
                 relayVars,
                 portalsCreated, sharePortalResults>>

\* The views the hosting process can focus: editors of its own, and editors
\* it displays as a guest of another portal.
OwnItems == {"own1", "own2"}
RemoteItems == {"remote1", "remote2"}

\* The editor proxy the HostPortalBinding makes the portal's active one for a
\* focal view: that of an editor of the host's own, and null for anything
\* else, a view of another portal's content in particular.
ActiveEditorProxyFor(item) ==
  IF item = "own1" THEN "ep1" ELSE IF item = "own2" THEN "ep2" ELSE Null

\* The hosting process changes its focal view.  The portal sends its guests
\* the active editor proxy when it changes.
HostFocus(item) ==
  /\ hostedPortals # {}
  /\ item # hostFocus
  /\ Len(calls) + Len(inFlight) < MaxCalls
  /\ hostFocus' = item
  /\ inFlight' = IF relayStarted
                     /\ ActiveEditorProxyFor(item) # ActiveEditorProxyFor(hostFocus)
                  THEN Append(inFlight, ActiveEditorProxyFor(item))
                  ELSE inFlight
  /\ UNCHANGED <<bufferVars, guestPortalBindingVars, indicatorVars, joinVars,
                 shareVars,
                 relayStarted>>

\* The guest binding is given the host portal's active editor proxy: the
\* current one when it has become the delegate, then every change in order.
RelayDeliver(placeholderReports) ==
  /\ hostedPortals # {}
  /\ IF relayStarted
     THEN /\ inFlight # <<>>
          /\ SetActiveEditorProxy(Head(inFlight), placeholderReports)
          /\ inFlight' = Tail(inFlight)
     ELSE /\ SetActiveEditorProxy(ActiveEditorProxyFor(hostFocus),
                                  placeholderReports)
          /\ inFlight' = inFlight
  /\ relayStarted' = TRUE
  /\ UNCHANGED <<bufferVars, joinVars, shareVars, hostFocus>>

\* ------------------------------------------------------------------ the shared document
\* The host (site 1) and one guest (site 2).
Sites == {1, 2}
OtherSite(s) == 3 - s

\* A BufferBinding that forwards what it applies for the proxy as well.
ForwardedEcho(bound, applyingRemote) == IF bound THEN 1 ELSE 0

\* The BufferBinding's observer of the document's mutations: a mutation is
\* forwarded to the buffer proxy, in one call, while the binding is bound to
\* a proxy and is not applying a remote operation itself.
Forwarded(bound, applyingRemote) ==
  IF bound /\ ~applyingRemote THEN 1 ELSE 0

\* Every change of the document recorded in the site's history, as the
\* document's own history would.
RecordedInHistoryAll(site, by) == TRUE

\* The history behind the document's undo and redo holds the site's own
\* edits only.
RecordedInHistory(site, by) == site = by

\* Detaching that resets the document's history.
HistoryAfterDetachReset(stack) == <<>>

\* Detaching leaves the document's history as it is.
HistoryAfterDetach(stack) == stack

Push(stack, e) == Append(stack, e)
Top(stack) == stack[Len(stack)]
Pop(stack) == SubSeq(stack, 1, Len(stack) - 1)

\* The site's document has content of its own once the site takes part: the
\* host always, the guest from the sharing on.
HasDocument(s) == s = 1 \/ phase # "local"

\* What a mutation of the document at site s sends: one proxy call, and the
\* operation on its way to the other site.
Forward(s, op, applyingRemote) ==
  LET n == Forwarded(phase = "shared", applyingRemote)
  IN /\ proxyCalls' = [proxyCalls EXCEPT ![s] = @ + n]
     /\ toSite' = IF n = 0 THEN toSite
                  ELSE [toSite EXCEPT ![OtherSite(s)] = Append(@, op)]

\* The user edits the document at site s.
LocalEdit(s) ==
  /\ HasDocument(s)
  /\ bufferOps < MaxBufferOps
  /\ bufferOps' = bufferOps + 1
  /\ LET e == Len(author) + 1
     IN /\ author' = Append(author, s)
        /\ text' = [text EXCEPT ![s] = @ \cup {e}]
        /\ undoStack' = [undoStack EXCEPT ![s] = Push(@, e)]
        /\ redoStack' = [redoStack EXCEPT ![s] = <<>>]
        /\ Forward(s, [kind |-> "insert", edit |-> e], FALSE)
  /\ sharedEdits' = IF phase = "shared"
                    THEN [sharedEdits EXCEPT ![s] = @ + 1] ELSE sharedEdits
  /\ UNCHANGED <<guestPortalBindingVars, indicatorVars, joinVars, shareVars,
                 relayVars, phase>>

\* The buffer proxy's delegate call updateText at site s: the operation is
\* applied to the document while the binding is marked as applying it.
UpdateText(s) ==
  /\ phase = "shared"
  /\ toSite[s] # <<>>
  /\ LET op == Head(toSite[s])
         by == author[op.edit]
     IN /\ text' = [text EXCEPT ![s] = IF op.kind = "insert" THEN @ \cup {op.edit}
                                       ELSE @ \ {op.edit}]
        /\ undoStack' = [undoStack EXCEPT ![s] =
             IF op.kind = "insert" /\ RecordedInHistory(s, by) THEN Push(@, op.edit)
             ELSE @]
        /\ LET n == Forwarded(TRUE, TRUE)
           IN /\ proxyCalls' = [proxyCalls EXCEPT ![s] = @ + n]
              /\ toSite' = [t \in Sites |->
                   IF t = s THEN Tail(toSite[s])
                   ELSE IF n = 0 THEN toSite[t] ELSE Append(toSite[t], op)]
  /\ UNCHANGED <<guestPortalBindingVars, indicatorVars, joinVars, shareVars,
                 relayVars, phase, author, redoStack, sharedEdits, bufferOps>>

\* undo at site s: the last edit of the site's history is reverted; a bound
\* document has the proxy do it, and the other site is sent the operation.
\* It does nothing when the history has no edit to revert.
Undo(s) ==
  /\ HasDocument(s)
  /\ bufferOps < MaxBufferOps
  /\ bufferOps' = bufferOps + 1
  /\ IF undoStack[s] = <<>>
     THEN UNCHANGED <<text, undoStack, redoStack, toSite>>
     ELSE LET e == Top(undoStack[s])
          IN /\ text' = [text EXCEPT ![s] = @ \ {e}]
             /\ undoStack' = [undoStack EXCEPT ![s] = Pop(@)]
             /\ redoStack' = [redoStack EXCEPT ![s] = Push(@, e)]
             /\ toSite' = IF phase = "shared"
                          THEN [toSite EXCEPT ![OtherSite(s)] =
                                  Append(@, [kind |-> "delete", edit |-> e])]
                          ELSE toSite
  /\ UNCHANGED <<guestPortalBindingVars, indicatorVars, joinVars, shareVars,
                 relayVars, phase, author, proxyCalls, sharedEdits>>

\* redo at site s, likewise.
Redo(s) ==
  /\ HasDocument(s)
  /\ bufferOps < MaxBufferOps
  /\ bufferOps' = bufferOps + 1
  /\ IF redoStack[s] = <<>>
     THEN UNCHANGED <<text, undoStack, redoStack, toSite>>
     ELSE LET e == Top(redoStack[s])
          IN /\ text' = [text EXCEPT ![s] = @ \cup {e}]
             /\ redoStack' = [redoStack EXCEPT ![s] = Pop(@)]
             /\ undoStack' = [undoStack EXCEPT ![s] = Push(@, e)]
             /\ toSite' = IF phase = "shared"
                          THEN [toSite EXCEPT ![OtherSite(s)] =
                                  Append(@, [kind |-> "insert", edit |-> e])]
                          ELSE toSite
  /\ UNCHANGED <<guestPortalBindingVars, indicatorVars, joinVars, shareVars,
                 relayVars, phase, author, proxyCalls, sharedEdits>>

\* The host shares the document and the guest joins: the guest's document is
\* created with the host's text and a history of its own.
ShareDocument ==
  /\ phase = "local"
  /\ phase' = "shared"
  /\ text' = [text EXCEPT ![2] = text[1]]
  /\ UNCHANGED <<guestPortalBindingVars, indicatorVars, joinVars, shareVars,
                 relayVars, author, undoStack, redoStack, proxyCalls,
                 sharedEdits, toSite, bufferOps>>

\* The portal is closed: both bindings are detached from the proxy, and what
\* was on its way is not delivered.
CloseDocument ==
  /\ phase = "shared"
  /\ phase' = "closed"
  /\ undoStack' = [s \in Sites |-> HistoryAfterDetach(undoStack[s])]
  /\ redoStack' = [s \in Sites |-> HistoryAfterDetach(redoStack[s])]
  /\ toSite' = [s \in Sites |-> <<>>]
  /\ UNCHANGED <<guestPortalBindingVars, indicatorVars, joinVars, shareVars,
                 relayVars, text, author, proxyCalls, sharedEdits, bufferOps>>

\* ------------------------------------------------------------------ the system
\* The binding as its constructor leaves it (lines 9-21), in an empty pane.
Init ==
  /\ portal = "undefined"
  /\ delegate = FALSE
  /\ initPc = "idle"
  /\ initLog = <<>>
  /\ notifications = <<>>
  /\ activePaneItem = NoItem
  /\ newActivePaneItem = NoItem
  /\ activeEditorBinding = 0
  /\ destroySubscription = NoItem
  /\ destroyObservers = {}
  /\ disposedEditorBindings = {}
  /\ disposedBufferBindings = {}
  /\ editorBindingsByEditorProxy = [e \in EditorProxies |-> 0]
  /\ bufferBindingsByBufferProxy = [b \in BufferProxies |-> 0]
  /\ editors = <<>>
  /\ buffers = <<>>
  /\ pane = [items |-> <<>>, active |-> NoItem]
  /\ destroyed = {}
  /\ userItems = 0
  /\ calls = <<>>
  /\ subscription = [exists |-> FALSE, releases |-> 0]
  /\ disposeCalls = 0
  /\ didDisposeCalls = 0
  /\ destroyCalls = [item \in PortalItems |-> 0]
  /\ portalDisposeCalls = 0
  /\ leaveCalls = 0
  /\ hostGone = "no"
  /\ hostGoneItem = NoItem
  /\ hostGonePane = {}
  /\ followToggled = [n \in 1..MaxCalls |-> FALSE]
  /\ autoscrolls = [i \in 1..MaxCalls |-> 0]
  /\ errors = {}
  /\ sites = [s \in SiteIds |-> "absent"]
  /\ didChangeEmits = 0
  /\ onclick = TRUE
  /\ clickPc = "idle"
  /\ tile = "none"
  /\ subscriptionsDisposed = FALSE
  /\ didChangeSubscription = "none"
  /\ popoverComponent = FALSE
  /\ tooltip = "none"
  /\ popoverVisible = FALSE
  /\ visibleResult = "none"
  /\ transmitting = FALSE
  /\ hasActivePortals = FALSE
  /\ managerEvents = 0
  /\ pendingUpdates = {}
  /\ joinPortalCalls = 0
  /\ guestBindings = 0
  /\ pendingActivations = 0
  /\ hostedPortals = {}
  /\ portalsCreated = 0
  /\ sharePortalResults = <<>>
  /\ hostFocus = "none"
  /\ relayStarted = FALSE
  /\ inFlight = <<>>
  /\ phase = "local"
  /\ text = [s \in Sites |-> {}]
  /\ author = <<>>
  /\ undoStack = [s \in Sites |-> <<>>]
  /\ redoStack = [s \in Sites |-> <<>>]
  /\ proxyCalls = [s \in Sites |-> 0]
  /\ sharedEdits = [s \in Sites |-> 0]
  /\ toSite = [s \in Sites |-> <<>>]
  /\ bufferOps = 0

Next ==
  \/ Initialize /\ UNCHANGED packageVars
  \/ \E outcome \in JoinOutcomes : JoinPortalSettles(outcome)
  \/ \E editorProxy \in EditorProxies \cup {Null}, placeholderReports \in BOOLEAN :
       SetActiveEditorProxy(editorProxy, placeholderReports) /\ UNCHANGED packageVars
  \/ \E i \in 1..MaxCalls, placeholderReports \in BOOLEAN :
       WorkspaceOpen(i, placeholderReports)
  \/ \E i \in 1..MaxCalls : ResumeReplace(i)
  \/ \E i \in 1..MaxCalls : Autoscroll(i)
  \/ \E k \in UserItemIds : UserOpen(k)
  \/ \E item \in PortalItems : UserDestroy(item)

Spec == Init /\ [][Next]_vars

\* What every specification below shares: the binding is joined and fed
\* editor proxies, and the user closes its items.
CoreNext ==
  \/ Initialize /\ UNCHANGED packageVars
  \/ \E outcome \in JoinOutcomes : JoinPortalSettles(outcome)
  \/ \E editorProxy \in EditorProxies \cup {Null}, placeholderReports \in BOOLEAN :
       SetActiveEditorProxy(editorProxy, placeholderReports) /\ UNCHANGED packageVars
  \/ \E i \in 1..MaxCalls, placeholderReports \in BOOLEAN :
       WorkspaceOpen(i, placeholderReports)
  \/ \E i \in 1..MaxCalls : ResumeReplace(i)
  \/ \E i \in 1..MaxCalls : Autoscroll(i)
  \/ \E item \in PortalItems : UserDestroy(item)

\* The portal's editor proxies are activated while the bindings of the
\* binding's editors and buffers are disposed.
BindingNext ==
  \/ Initialize /\ UNCHANGED packageVars
  \/ \E outcome \in JoinOutcomes : JoinPortalSettles(outcome)
  \/ \E editorProxy \in EditorProxies \cup {Null} :
       SetActiveEditorProxy(editorProxy, FALSE) /\ UNCHANGED packageVars
  \/ \E i \in 1..MaxCalls : WorkspaceOpen(i, FALSE)
  \/ \E i \in 1..MaxCalls : ResumeReplace(i)
  \/ \E i \in 1..MaxCalls : Autoscroll(i)
  \/ \E n \in 1..MaxCalls : DisposeEditorBinding(n)
  \/ \E b \in 1..MaxCalls : DisposeBufferBinding(b)

BindingSpec == Init /\ [][BindingNext]_vars

\* The binding is disposed, from whichever path and more than once.
DisposeNext ==
  \/ CoreNext
  \/ \E k \in DisposeCallIds : Dispose(k)

DisposeSpec == Init /\ [][DisposeNext]_vars

\* The host goes away, and the binding is disposed after that.
HostNext ==
  \/ CoreNext
  \/ HostDidClosePortal
  \/ HostDidLoseConnection
  \/ DisposeAfterHostGone

HostSpec == Init /\ [][HostNext]_vars

\* The guest leaves the portal, by closing the item or by the package's
\* command.
LeaveNext ==
  \/ CoreNext
  \/ \E k \in LeaveCallIds : LeaveCall(k)

LeaveSpec == Init /\ [][LeaveNext]_vars

\* Other guests join and leave the portal.
SiteNext ==
  \/ CoreNext
  \/ \E siteId \in SiteIds : SiteDidJoin(siteId)
  \/ \E siteId \in SiteIds : SiteDidLeave(siteId)

SiteSpec == Init /\ [][SiteNext]_vars

\* The guest uses the package's commands on the binding.
CommandNext ==
  \/ CoreNext
  \/ ToggleFollowHostCursorOnActiveEditorProxy
  \/ Activate /\ UNCHANGED packageVars

CommandSpec == Init /\ [][CommandNext]_vars

\* The process joins the portal through the package, more than once.
JoinNext ==
  \/ \E k \in JoinCallIds : JoinPortal(k)
  \/ JoinPortalResumes
  \/ \E outcome \in JoinOutcomes : JoinPortalSettles(outcome)
  \/ \E editorProxy \in EditorProxies \cup {Null}, placeholderReports \in BOOLEAN :
       SetActiveEditorProxy(editorProxy, placeholderReports) /\ UNCHANGED packageVars
  \/ \E i \in 1..MaxCalls, placeholderReports \in BOOLEAN :
       WorkspaceOpen(i, placeholderReports)
  \/ \E i \in 1..MaxCalls : ResumeReplace(i)
  \/ \E i \in 1..MaxCalls : Autoscroll(i)
  \/ \E k \in UserItemIds : UserOpen(k)

JoinSpec == Init /\ [][JoinNext]_vars

\* The process shares and closes portals, and changes its focal view.
ShareNext ==
  \/ SharePortal
  \/ CloseHostPortal
  \/ \E item \in OwnItems \cup RemoteItems : HostFocus(item)

ShareSpec == Init /\ [][ShareNext]_vars

\* The hosting process is a guest of another portal too; a guest of the
\* portal it hosts is given the active editor proxies it publishes.
RelayNext ==
  \/ SharePortal
  \/ \E item \in OwnItems \cup RemoteItems : HostFocus(item)
  \/ \E placeholderReports \in BOOLEAN : RelayDeliver(placeholderReports)
  \/ Initialize /\ UNCHANGED packageVars
  \/ \E outcome \in JoinOutcomes : JoinPortalSettles(outcome)
  \/ \E i \in 1..MaxCalls, placeholderReports \in BOOLEAN :
       WorkspaceOpen(i, placeholderReports)
  \/ \E i \in 1..MaxCalls : ResumeReplace(i)
  \/ \E i \in 1..MaxCalls : Autoscroll(i)

RelaySpec == Init /\ [][RelayNext]_vars

\* One document is edited, shared, edited at both sites, and detached.
BufferNext ==
  \/ \E s \in Sites : LocalEdit(s)
  \/ \E s \in Sites : UpdateText(s)
  \/ \E s \in Sites : Undo(s)
  \/ \E s \in Sites : Redo(s)
  \/ ShareDocument
  \/ CloseDocument

BufferSpec == Init /\ [][BufferNext]_vars

\* The status bar indicator: attached, clicked, asked, updated, destroyed.
IndicatorNext ==
  \/ Attach
  \/ Click
  \/ ManagerResolves
  \/ ProviderResolves
  \/ SignInResolves
  \/ IsPopoverVisible
  \/ ShowPopover
  \/ Destroy
  \/ \E k \in DidChangeEvents, active \in BOOLEAN : ManagerDidChange(k, active)
  \/ \E u \in [event : DidChangeEvents, answer : BOOLEAN], fresh \in BOOLEAN :
       UpdateResolves(u, fresh)

IndicatorSpec == Init /\ [][IndicatorNext]_vars

\* ------------------------------------------------------------------ properties
PortalItemsIn(p) == {k \in 1..Len(p.items) : IsPortalItem(p.items[k])}
LastCall == calls[Len(calls)]
Completed(c) == c.pc = "done"

\* C1: whatever setActiveEditorProxy calls are issued, overlapping or not,
\* no editor proxy ever has two EditorBindings (editors) and no buffer proxy two
\* BufferBindings (buffers): a call for a proxy activated before gets the
\* editor that the first activation created.
C1_OneBindingPerProxy ==
  /\ \A ep \in EditorProxies :
       Cardinality({n \in 1..Len(editors) : editors[n].proxy = ep}) <= 1
  /\ \A bp \in BufferProxies :
       Cardinality({n \in 1..Len(buffers) : buffers[n].proxy = bp}) <= 1
  /\ \A i \in 1..Len(calls) :
       calls[i].arg # Null =>
         /\ calls[i].item.kind = "editor"
         /\ editors[calls[i].item.id].proxy = calls[i].arg
         /\ editorBindingsByEditorProxy[calls[i].arg] = calls[i].item.id

\* Two overlapping calls for one proxy and a third for the other editor of the
\* same buffer: two editors, one buffer.
C1_Witness ==
  /\ Len(calls) = 3
  /\ calls[1].arg = calls[2].arg /\ calls[1].arg # Null
  /\ calls[3].arg \notin {Null, calls[1].arg}
  /\ calls[1].pc = "open" /\ calls[2].pc = "open"
  /\ Len(editors) = 2 /\ Len(buffers) = 1

\* C2: every completed setActiveEditorProxy(x) has made the placeholder the
\* binding's active pane item if and only if x is null, and x's editor if x
\* is a proxy (shown is the value line 163 gave activePaneItem in that call).
C2_PlaceholderIffNull ==
  \A i \in 1..Len(calls) :
    Completed(calls[i]) =>
      /\ calls[i].shown = EmptyPortalItem <=> calls[i].arg = Null
      /\ calls[i].arg # Null => calls[i].shown = calls[i].item

\* C3: the pane never holds two items of the binding.
C3_OnePortalItem == Cardinality(PortalItemsIn(pane)) <= 1

\* C4: a setActiveEditorProxy(x) that follows a completed
\* setActiveEditorProxy(x), with no call in between or in progress, and that
\* does not fail, changes neither the pane nor the binding's active pane
\* item, and creates nothing.
C4_Idempotent ==
  [][(/\ Len(calls) >= 1
      /\ \A j \in 1..Len(calls) : Completed(calls[j])
      /\ Len(calls') = Len(calls) + 1
      /\ calls'[Len(calls')].arg = LastCall.arg
      /\ calls'[Len(calls')].path = "replace")
     => /\ pane' = pane
        /\ activePaneItem' = activePaneItem
        /\ editors' = editors
        /\ buffers' = buffers]_vars

\* C5: a step in which the user destroys the binding's active pane item,
\* displayed in the pane, leaves the portal disposed.
C5_DestroyLeaves ==
  [][(/\ activePaneItem # NoItem
      /\ InPane(pane, activePaneItem)
      /\ activePaneItem \notin destroyed
      /\ activePaneItem \in destroyed')
     => portal' = "disposed"]_vars

\* The user has closed an item that a replacement, not the first display,
\* installed.
C5_Witness ==
  /\ portal = "disposed"
  /\ activePaneItem \in destroyed
  /\ \E i \in 2..Len(calls) :
       calls[i].path = "replace" /\ calls[i].shown = activePaneItem

\* C6: a replacement of the displayed item by another item puts the new item
\* at the old one's index and leaves every other item of the pane where it was.
C6_ReplacedInPlace ==
  [][(/\ Len(calls') = Len(calls) + 1
      /\ calls'[Len(calls')].path = "replace"
      /\ calls'[Len(calls')].item # activePaneItem)
     => pane'.items =
          [k \in 1..Len(pane.items) |->
             IF pane.items[k] = activePaneItem THEN calls'[Len(calls')].item
             ELSE pane.items[k]]]_vars

\* C7: initialize() does not raise; it returns true exactly when joinPortal
\* resolved to a portal, and the binding is the portal's delegate exactly
\* when it returned true.
C7_InitializeResult ==
  /\ \A k \in 1..Len(initLog) :
       /\ ~initLog[k].raised
       /\ initLog[k].result <=> initLog[k].outcome.kind = "portal"
  /\ delegate <=> \E k \in 1..Len(initLog) : initLog[k].result

C7_Witness ==
  /\ Len(initLog) = 1
  /\ initLog[1].outcome.kind = "Error"
  /\ ~initLog[1].result

\* C8: an initialize() that returned false has added exactly one dismissable
\* error notification, and one that returned true has added none.
C8_OneNotification ==
  \A k \in 1..Len(initLog) :
    IF initLog[k].result THEN initLog[k].added = 0
    ELSE /\ initLog[k].added = 1
         /\ notifications[Len(notifications)].type = "error"
         /\ notifications[Len(notifications)].dismissable

InSeq(x, seq) == \E k \in 1..Len(seq) : seq[k] = x

C10_FailedJoinNoState ==
  (\E k \in 1..Len(initLog) : ~initLog[k].result) =>
    /\ \A ep \in EditorProxies : editorBindingsByEditorProxy[ep] = 0
    /\ \A bp \in BufferProxies : bufferBindingsByBufferProxy[bp] = 0
    /\ activePaneItem = NoItem
    /\ newActivePaneItem = NoItem
    /\ activeEditorBinding = 0
    /\ editors = <<>> /\ buffers = <<>>
    /\ PortalItemsIn(pane) = {}
    /\ ~delegate

\* A join refused with a null portal, and the user working on in the pane.
C10_Witness ==
  /\ Len(initLog) = 1
  /\ initLog[1].outcome.kind = "null"
  /\ Len(pane.items) = 2

\* C11: dispose() is idempotent: once dispose() has been called, however many
\* times, the didDispose callback has been invoked exactly once, no item of the
\* binding has had destroy() called on it more than once, and the destroy
\* subscription the binding holds has been released exactly once.
C11_DisposeIdempotent ==
  disposeCalls >= 1 =>
    /\ didDisposeCalls = 1
    /\ \A item \in PortalItems : destroyCalls[item] <= 1
    /\ subscription.exists => subscription.releases = 1

\* C12: leave() is idempotent on a joined binding: once the guest has left,
\* through however many leave() calls (the package's command, the destroy
\* observer of the displayed item), the Portal has been disposed exactly once.
C12_LeaveIdempotent ==
  portal = "disposed" => portalDisposeCalls = 1

\* C13: hostDidClosePortal() and hostDidLoseConnection() set activePaneItem to
\* null and neither destroy nor remove a pane item; and an editor view that
\* was in the pane when the host went away stays there, undestroyed, through
\* every later step of the binding, a dispose() included: only the user's
\* closing it takes it away.
C13_HostGoneKeepsEditor ==
  [][/\ (hostGone = "no" /\ hostGone' # "no") =>
          /\ activePaneItem' = NoItem
          /\ pane' = pane
          /\ destroyed' = destroyed
     /\ (hostGone' # "no" /\ ~(\E item \in PortalItems : UserDestroy(item))) =>
          \A item \in hostGonePane' :
            (item.kind = "editor" /\ InPane(pane, item) /\ item \notin destroyed)
              => (InPane(pane', item) /\ item \notin destroyed')]_vars

\* C14: when the placeholder was the displayed item as the host closed the
\* portal or lost its connection, then after the teardown (a dispose() after
\* that) the pane holds no item of the portal.
C14_PlaceholderTeardown ==
  (hostGone # "no" /\ hostGoneItem = EmptyPortalItem /\ disposeCalls >= 1)
    => PortalItemsIn(pane) = {}

C15_SiteEventsOnlyNotify ==
  [][sites' # sites =>
       /\ UNCHANGED <<bindingVars, subscription, pane, destroyed>>
       /\ Len(notifications') = Len(notifications) + 1
       /\ SubSeq(notifications', 1, Len(notifications)) = notifications
       /\ notifications'[Len(notifications')].type = "info"
       /\ didChangeEmits' = didChangeEmits + 1]_vars

\* C15 witness: a guest has joined and left while the binding displayed an
\* item, and both events were notified.
C15_Witness ==
  /\ \E siteId \in SiteIds : sites[siteId] = "left"
  /\ activePaneItem # NoItem
  /\ Len(notifications) = 2
  /\ didChangeEmits = 2

\* C17: with every setActiveEditorProxy call completed, a toggle that changes
\* a following-host-cursor flag negates the flag of the EditorBinding whose
\* view is the active pane item, and of that binding only.
C17_ToggleActiveBinding ==
  [][(followToggled' # followToggled /\ \A i \in 1..Len(calls) : Completed(calls[i])) =>
       \A n \in 1..MaxCalls :
         (followToggled'[n] # followToggled[n]) <=> (activePaneItem = EditorItem(n))]_vars

\* C18: no operation raises an unhandled error in any reachable state: no
\* command has thrown and no setActiveEditorProxy call has failed.
C18_NoUnhandledError ==
  /\ errors = {}
  /\ \A i \in 1..Len(calls) : calls[i].pc # "failed"

\* C19: every completed setActiveEditorProxy(p) with p non-null has called
\* autoscrollToLastHostSelection() once, on the EditorBinding of p, and p's
\* view is what the call made the active pane item; a completed
\* setActiveEditorProxy(null) has called it on no binding; a call that has not
\* completed has not called it.
C19_AutoscrollOnCompletion ==
  \A i \in 1..Len(calls) :
    IF Completed(calls[i]) /\ calls[i].arg # Null
    THEN /\ autoscrolls[i] = editorBindingsByEditorProxy[calls[i].arg]
         /\ calls[i].shown = EditorItem(autoscrolls[i])
    ELSE autoscrolls[i] = 0

\* C20: two distinct editor proxies of one buffer proxy, both activated, have
\* two distinct EditorBindings (editors) that share one buffer, the buffer of
\* the buffer proxy's one BufferBinding: the second activation has created no
\* second buffer, and so has not set the buffer proxy up (setBufferProxy,
\* setDelegate, lines 72-79) again.
C20_SharedBuffer ==
  \A p, q \in EditorProxies :
    (/\ p # q
     /\ BufferProxyOf(p) = BufferProxyOf(q)
     /\ editorBindingsByEditorProxy[p] # 0
     /\ editorBindingsByEditorProxy[q] # 0) =>
      /\ editorBindingsByEditorProxy[p] # editorBindingsByEditorProxy[q]
      /\ editors[editorBindingsByEditorProxy[p]].buffer
           = editors[editorBindingsByEditorProxy[q]].buffer
      /\ editors[editorBindingsByEditorProxy[p]].buffer
           = bufferBindingsByBufferProxy[BufferProxyOf(p)]
      /\ Cardinality({k \in 1..Len(buffers) : buffers[k].proxy = BufferProxyOf(p)}) = 1

\* C20 witness: both editor proxies of the buffer proxy have been activated,
\* one call after the other, and the second call has completed.
C20_Witness ==
  /\ Len(calls) = 2
  /\ calls[1].arg # Null /\ calls[2].arg # Null /\ calls[1].arg # calls[2].arg
  /\ Completed(calls[1]) /\ Completed(calls[2])
  /\ calls[2].path = "replace"
  /\ Len(editors) = 2

\* C21: isPopoverVisible() never raises; before the first click has created
\* the popover it returns false, and a call made while the popover is shown
\* returns true.
C21_IsPopoverVisible ==
  [][/\ visibleResult' # "raised"
     /\ (visibleResult' # visibleResult /\ ~popoverComponent) => visibleResult' = "false"
     /\ (visibleResult' # visibleResult /\ popoverComponent /\ popoverVisible)
          => visibleResult' = "true"]_vars

\* C22: joining the same portal id more than once, a second joinPortal before
\* the first has completed included, yields exactly one guest binding and
\* exactly one displayed view of the portal, and a later join resuming on the
\* joined binding adds no pane item.
C22_JoinedOnce ==
  [][/\ joinPortalCalls' >= 2
          => guestBindings' = 1 /\ Cardinality(PortalItemsIn(pane')) <= 1
     /\ pendingActivations' < pendingActivations => pane'.items = pane.items]_vars

\* C28: when setActiveEditorProxy calls overlap (the second starts while the
\* first is suspended in workspace.open) and no item is destroyed, then once
\* all of them have completed none has failed, activePaneItem is the item the
\* last-issued call asked for, and the destroy observer is on that item.
C28_DeliveryOrder ==
  (/\ Len(calls) >= 2 /\ calls[2].path = "open"
   /\ destroyed = {}
   /\ \A i \in 1..Len(calls) : calls[i].pc \in {"done", "failed"})
    => /\ \A i \in 1..Len(calls) : Completed(calls[i])
       /\ activePaneItem # NoItem
       /\ activePaneItem = LastCall.item
       /\ destroySubscription = activePaneItem

\* C29: at most one destroy observer of the binding is live; when a
\* replaceActivePaneItem completes, the observer is on the activePaneItem it
\* leaves; and the user's destroying an item that is not the current
\* activePaneItem (one displayed earlier and replaced) calls no leave().
C29_OneDestroyObserver ==
  [][/\ Cardinality(destroyObservers') <= 1
     /\ (\E i \in 1..Len(calls') :
           /\ calls'[i].shown # NoItem
           /\ i > Len(calls) \/ calls[i].shown = NoItem)
          => destroyObservers' = {activePaneItem'}
     /\ \A item \in destroyed' \ destroyed :
          (disposeCalls' = disposeCalls /\ item # activePaneItem)
            => portalDisposeCalls' = portalDisposeCalls]_vars

\* A displayed editor was replaced by another and then destroyed by the user,
\* and the portal has not been disposed.
C29_Witness ==
  /\ \E i \in 1..Len(calls) :
       /\ calls[i].shown \in destroyed
       /\ calls[i].shown # activePaneItem
  /\ activePaneItem \in PortalItems
  /\ destroyObservers = {activePaneItem}
  /\ disposeCalls = 0
  /\ portalDisposeCalls = 0

\* C30: after hostDidClosePortal() or hostDidLoseConnection(), the user's
\* destroying the view that was displayed then calls no leave(): the portal
\* is not disposed by it.
C30_HostGoneViewIsLocal ==
  [][(/\ hostGone # "no"
      /\ hostGoneItem # NoItem
      /\ hostGoneItem \in destroyed' \ destroyed
      /\ disposeCalls' = disposeCalls)
     => /\ portalDisposeCalls' = portalDisposeCalls
        /\ portal' = portal]_vars

\* C23: the process hosts at most one portal; a sharePortal() made while a
\* portal is hosted returns that portal's id and creates none; a sharePortal()
\* made when none is hosted (after closeHostPortal()) creates a portal whose
\* id differs from every id returned before.
C23_OneHostedPortal ==
  [][/\ Cardinality(hostedPortals') <= 1
     /\ Len(sharePortalResults') > Len(sharePortalResults) =>
          LET id == sharePortalResults'[Len(sharePortalResults')]
          IN IF hostedPortals # {}
             THEN /\ id \in hostedPortals
                  /\ hostedPortals' = hostedPortals
                  /\ portalsCreated' = portalsCreated
             ELSE /\ hostedPortals' = {id}
                  /\ portalsCreated' = portalsCreated + 1
                  /\ \A j \in 1..Len(sharePortalResults) :
                       sharePortalResults[j] # id]_vars

\* sharePortal() twice, closeHostPortal(), sharePortal(): the same id twice,
\* then another.
C23_Witness ==
  /\ Len(sharePortalResults) >= 3
  /\ sharePortalResults[1] = sharePortalResults[2]
  /\ sharePortalResults[3] # sharePortalResults[1]
  /\ hostedPortals = {sharePortalResults[3]}

\* C24: while the hosting process is focused on a view of the portal it has
\* joined as a guest (whichever of its views), a guest of the hosted portal
\* that has been given everything the portal sent, and whose calls have
\* ended, displays the placeholder and no editor of the portal.
C24_NoTransitivity ==
  (/\ hostFocus \in RemoteItems
   /\ relayStarted /\ inFlight = <<>>
   /\ portal = "live"
   /\ \A i \in 1..Len(calls) : calls[i].pc \in {"done", "failed"})
    => /\ activePaneItem = EmptyPortalItem
       /\ {pane.items[k] : k \in PortalItemsIn(pane)} = {EmptyPortalItem}
\* C25: applying a remote operation (updateText) forwards nothing to the
\* buffer proxy and sends nothing back, and the mutations a BufferBinding has
\* forwarded are exactly one per local edit made while it was bound.
C25_EchoSuppression ==
  [][/\ \A s \in Sites : proxyCalls'[s] = sharedEdits'[s]
     /\ \A s \in Sites :
          (phase' = "shared" /\ Len(toSite'[s]) < Len(toSite[s]))
            => /\ proxyCalls' = proxyCalls
               /\ toSite'[OtherSite(s)] = toSite[OtherSite(s)]]_vars

\* Both sites have edited the shared document and have applied each other's
\* operation.
C25_Witness ==
  /\ phase = "shared"
  /\ \A s \in Sites : sharedEdits[s] >= 1 /\ toSite[s] = <<>>
  /\ \A s \in Sites : \E e \in text[s] : author[e] = OtherSite(s)
  /\ text[1] = text[2]

OwnEdits(s, edits) == {e \in edits : author[e] = s}
Latest(edits) == CHOOSE e \in edits : \A x \in edits : x <= e

\* C26: an undo at a site removes from its text exactly the most recent of
\* the site's own edits in it, a redo puts back exactly one of the site's own
\* undone edits, and neither touches the other site's edits; an undo or redo
\* with nothing to revert or re-apply leaves the text as it is; and when
\* every operation has arrived, both sites have the same text.
C26_UndoLocality ==
  [][/\ \A s \in Sites :
          (phase' = phase /\ Len(undoStack'[s]) < Len(undoStack[s]))
            => /\ OwnEdits(s, text[s]) # {}
               /\ text'[s] = text[s] \ {Latest(OwnEdits(s, text[s]))}
     /\ \A s \in Sites :
          (author' = author /\ Len(redoStack'[s]) < Len(redoStack[s]))
            => \E e \in OwnEdits(s, 1..Len(author)) \ text[s] :
                 text'[s] = text[s] \cup {e}
     /\ (bufferOps' > bufferOps /\ author' = author
           /\ undoStack' = undoStack /\ redoStack' = redoStack)
          => text' = text
     /\ (phase' = "shared" /\ \A s \in Sites : toSite'[s] = <<>>)
          => text'[1] = text'[2]]_vars

\* The host and the guest have both edited, the host has undone its edit
\* after the guest's, and everything has arrived: the guest's edit is in both
\* texts, the host's in neither.
C26_Witness ==
  /\ phase = "shared"
  /\ \A s \in Sites : toSite[s] = <<>>
  /\ Len(author) >= 2
  /\ \E h, g \in 1..Len(author) :
       /\ h < g /\ author[h] = 1 /\ author[g] = 2
       /\ redoStack[1] = <<h>>
       /\ \A s \in Sites : g \in text[s] /\ h \notin text[s]

\* C27: closing the portal leaves the documents' texts and histories as they
\* are; afterwards no edit, undo or redo is forwarded to a proxy or sent to
\* the other site, every edit of the site that is in its text, made before or
\* during the session, is still in its history, and undo reverts the last of
\* them.
C27_DetachPreservesHistory ==
  [][/\ (phase = "shared" /\ phase' = "closed")
          => /\ text' = text
             /\ undoStack' = undoStack
             /\ redoStack' = redoStack
     /\ phase = "closed"
          => /\ proxyCalls' = proxyCalls
             /\ toSite' = toSite
             /\ phase' = "closed"
     /\ \A s \in Sites :
          phase' = "closed"
            => {undoStack'[s][k] : k \in 1..Len(undoStack'[s])}
                 = {e \in text'[s] : author'[e] = s}
     /\ \A s \in Sites :
          (phase = "closed" /\ Len(undoStack'[s]) < Len(undoStack[s]))
            => text'[s] = text[s] \ {Top(undoStack[s])}]_vars

\* After the close the host has undone an edit made during the session and
\* one made before it.
C27_Witness ==
  /\ phase = "closed"
  /\ Len(author) >= 2
  /\ sharedEdits[1] = 1
  /\ author[1] = 1 /\ author[2] = 1
  /\ redoStack[1] = <<2, 1>>
  /\ text[1] = {}
  /\ proxyCalls[1] = 1

\* C33: when the last pending updatePortalStatus call resolves, on an
\* indicator whose subscription to the manager is live, the element has the
\* class 'transmitting' if and only if the manager has active portals then,
\* in whatever order the answers have arrived.
C33_TransmittingIffActive ==
  [][(/\ didChangeSubscription = "live"
      /\ pendingUpdates # {}
      /\ pendingUpdates' = {})
     => transmitting' = hasActivePortals']_vars

\* C34: once destroy() has run and handleInitialClick has finished, the
\* indicator has no live subscription to the manager and no live tooltip, and
\* a did-change event of the manager starts no updatePortalStatus call.
C34_DestroyIsFinal ==
  [][/\ (subscriptionsDisposed' /\ clickPc' = "done")
          => didChangeSubscription' # "live" /\ tooltip' # "live"
     /\ (subscriptionsDisposed /\ clickPc = "done"
           /\ managerEvents' > managerEvents)
          => pendingUpdates' = pendingUpdates]_vars

\* C31: a dispose() call destroys the active pane item and the placeholder
\* with no observer of their destruction left, so it makes no leave() call:
\* portal.dispose() is not called and the portal is as it was.
C31_DisposeNeverLeaves ==
  [][disposeCalls' > disposeCalls
       => /\ portalDisposeCalls' = portalDisposeCalls
          /\ portal' = portal
          /\ destroyObservers' = {}
          /\ EmptyPortalItem \in destroyed'
          /\ (activePaneItem # NoItem => activePaneItem \in destroyed')]_vars

\* A binding disposed while an editor was its active pane item, observed for
\* its destruction until then: the editor is destroyed and portal.dispose()
\* was never called.
C31_Witness ==
  /\ disposeCalls = 1
  /\ activePaneItem # NoItem
  /\ activePaneItem.kind = "editor"
  /\ activePaneItem \in destroyed
  /\ subscription.exists
  /\ subscription.releases >= 1
  /\ destroyObservers = {}
  /\ portalDisposeCalls = 0

\* C32: the maps never hold a disposed binding.  A binding that is disposed
\* takes the entry of its own proxy, and no other entry, out of its map.  A
\* setActiveEditorProxy call for an editor proxy never activates a disposed
\* EditorBinding: when every EditorBinding made for the proxy is disposed it
\* makes a new one, and the editor it makes is on the buffer of a
\* BufferBinding that is not disposed, a new one when every BufferBinding made
\* for the buffer proxy is disposed.
C32_DisposedBindingsLeaveTheMaps ==
  [][/\ \A p \in EditorProxies :
          editorBindingsByEditorProxy'[p] # 0
            => editorBindingsByEditorProxy'[p] \notin disposedEditorBindings'
     /\ \A q \in BufferProxies :
          bufferBindingsByBufferProxy'[q] # 0
            => bufferBindingsByBufferProxy'[q] \notin disposedBufferBindings'
     /\ (calls' = calls
           /\ editorBindingsByEditorProxy' # editorBindingsByEditorProxy)
          => \E n \in disposedEditorBindings' :
               /\ \A p \in EditorProxies :
                    editorBindingsByEditorProxy'[p]
                      = IF p = editors[n].proxy THEN 0
                        ELSE editorBindingsByEditorProxy[p]
               /\ bufferBindingsByBufferProxy' = bufferBindingsByBufferProxy
     /\ (calls' = calls
           /\ bufferBindingsByBufferProxy' # bufferBindingsByBufferProxy)
          => \E b \in disposedBufferBindings' :
               /\ \A q \in BufferProxies :
                    bufferBindingsByBufferProxy'[q]
                      = IF q = buffers[b].proxy THEN 0
                        ELSE bufferBindingsByBufferProxy[q]
               /\ editorBindingsByEditorProxy' = editorBindingsByEditorProxy
     /\ (Len(calls') > Len(calls) /\ calls'[Len(calls')].arg # Null)
          => LET p == calls'[Len(calls')].arg
                 q == BufferProxyOf(p)
             IN /\ activeEditorBinding' \notin disposedEditorBindings'
                /\ editors'[activeEditorBinding'].proxy = p
                /\ (\A n \in 1..Len(editors) :
                      editors[n].proxy = p => n \in disposedEditorBindings)
                     => activeEditorBinding' = Len(editors) + 1
                /\ Len(editors') > Len(editors)
                     => /\ editors'[Len(editors')].buffer
                             \notin disposedBufferBindings'
                        /\ (\A b \in 1..Len(buffers) :
                              buffers[b].proxy = q
                                => b \in disposedBufferBindings)
                             => editors'[Len(editors')].buffer
                                  = Len(buffers) + 1]_vars

\* An editor proxy whose EditorBinding was disposed has been activated again:
\* the map holds a later binding for it, which is not disposed, beside a new
\* BufferBinding made after the first one was disposed.
C32_Witness ==
  \E n \in disposedEditorBindings :
    /\ activeEditorBinding > n
    /\ activeEditorBinding \notin disposedEditorBindings
    /\ editors[activeEditorBinding].proxy = editors[n].proxy
    /\ editorBindingsByEditorProxy[editors[n].proxy] = activeEditorBinding
    /\ disposedBufferBindings # {}
    /\ editors[activeEditorBinding].buffer \notin disposedBufferBindings

====
